---- MODULE Spec2Model ----
(***************************************************************************)
(* Model of the local search widget of the theme (src/js/search.js,        *)
(* class SearchEngine) together with the click handlers that              *)
(* src/js/main.js binds to the same elements.                             *)
(*                                                                         *)
(* Text is modelled as a sequence of one-character strings.  The engine    *)
(* state is gathered in a record (State) so that the methods of the class  *)
(* are operators from state to state; every action of the module is one    *)
(* browser event (a click, a key, an input event, a timer expiry, the      *)
(* settling of a promise) and runs the handlers bound to it to completion. *)
(***************************************************************************)
EXTENDS Integers, Sequences, FiniteSets, TLC

VARIABLES
  searchData,     \* this.searchData: NULL or an array of Documents
  isLoading,      \* this.isLoading
  isOpen,         \* this.isOpen
  formWrapOpen,   \* #search-form-wrap carries the class is-open
  inputVal,       \* value of #search-input
  results,        \* content of #search-results
  debounceTimer,  \* the timeout id held by the input handler (0: none yet)
  timers,         \* ids of the timeouts that are pending
  fetching,       \* loadSearchData calls suspended at `await fetch(...)`
  parsing,        \* loadSearchData calls suspended at `await response.json()`
  fetchCount,     \* number of fetches issued so far
  successCount,   \* number of loads that assigned searchData
  failures,       \* number of loads that ended in the catch block with no
                  \* collection assigned
  handlerOrder,   \* which script bound its click handlers first
  calls,          \* methods of the engine entered during the last event
  uncaught,       \* an exception is propagating; at the end of an event: it
                  \* has left the handler of the event uncaught
  parsedBody,     \* the value the last response.json() has resolved with
  now,            \* Date.now(), in milliseconds
  sessionStorage, \* the items of sessionStorage under the prefix of the
                  \* Encryption module, by page id (NULL: no item)
  storageAvailable, \* what isStorageAvailable finds
  pathname,       \* window.location.pathname of the page that is loaded
  hasInput,       \* the page has a password input
  passwordInput   \* the value of the first password input

vars == <<searchData, isLoading, isOpen, formWrapOpen, inputVal, results,
          debounceTimer, timers, fetching, parsing, fetchCount, successCount,
          failures, handlerOrder, calls, uncaught, parsedBody,
          now, sessionStorage, storageAvailable, pathname, hasInput,
          passwordInput>>

\* the variables of the search widget but calls
widgetVars ==
  <<searchData, isLoading, isOpen, formWrapOpen, inputVal, results,
    debounceTimer, timers, fetching, parsing, fetchCount, successCount,
    failures, handlerOrder, uncaught, parsedBody>>

\* the variables of the Encryption module and of its page
encryptionVars ==
  <<now, sessionStorage, storageAvailable, pathname, hasInput, passwordInput>>

----------------------------------------------------------------------------
(* Bounds of the model *)

\* the network fails at most this many times in a session
MaxFailures == 2

\* longest text drawn for a field or a query in SearchSpec
MaxLen == 2

(* Program constants *)

\* options.minChars
minChars == 2

----------------------------------------------------------------------------
(* Text *)

NULL == [type |-> "null"]

\* String.prototype.toLowerCase on one character
toLowerChar(c) ==
  CASE c = "A" -> "a"
    [] c = "B" -> "b"
    [] OTHER -> c

\* the capital I with a dot above (U+0130), one character of text, and the
\* combining dot above (U+0307) of its lower case
IDot == "U+0130"
DotAbove == "U+0307"

\* the lower case of one character as text: that of U+0130 has two characters
lowerOf(c) == IF c = IDot THEN <<"i", DotAbove>> ELSE <<toLowerChar(c)>>

\* String.prototype.toLowerCase
RECURSIVE toLowerCase(_)
toLowerCase(s) ==
  IF s = <<>> THEN <<>>
  ELSE IF Len(s) = 1 THEN lowerOf(s[1])
  ELSE LET half == Len(s) \div 2
       IN  toLowerCase(SubSeq(s, 1, half))
             \o toLowerCase(SubSeq(s, half + 1, Len(s)))

\* String.prototype.substring: both indices clamped to the text, swapped when
\* the first exceeds the second
substring(s, from, to) ==
  LET clamp(i) == IF i < 0 THEN 0 ELSE IF i > Len(s) THEN Len(s) ELSE i
      a == clamp(from)
      b == clamp(to)
  IN  IF a <= b THEN SubSeq(s, a + 1, b) ELSE SubSeq(s, b + 1, a)

\* String.prototype.indexOf: 0-based index of the first occurrence, or -1
indexOf(s, t) ==
  LET hits == {i \in 0..(Len(s) - Len(t)) : SubSeq(s, i + 1, i + Len(t)) = t}
  IN  IF hits = {} THEN -1 ELSE CHOOSE i \in hits : \A j \in hits : i <= j

\* String.prototype.includes
includes(s, t) == indexOf(s, t) # -1

RECURSIVE trimStart(_)
trimStart(s) ==
  IF s # <<>> /\ Head(s) = " " THEN trimStart(Tail(s)) ELSE s

RECURSIVE trimEnd(_)
trimEnd(s) ==
  IF s # <<>> /\ s[Len(s)] = " " THEN trimEnd(SubSeq(s, 1, Len(s) - 1)) ELSE s

\* String.prototype.trim
trim(s) == trimEnd(trimStart(s))

----------------------------------------------------------------------------
(* The index: raw JSON values and their normalisation *)

\* a JSON number where text is expected (a title such as 2024): it is truthy,
\* it is no text, and it has no toLowerCase
aNumber == <<"number">>

isText(v) == \A i \in 1..Len(v) : v[i] # "number"

\* no value: no response has been parsed yet
NoBody == [type |-> "none"]

\* a JSON array
Arr(xs) == [type |-> "array", items |-> xs]

\* a JSON string
Txt(s) == [type |-> "string", value |-> s]

\* a JSON object with a name field, as hexo gives tags and categories
Named(s) == [type |-> "object", name |-> s]

has(obj, field) == field \in DOMAIN obj

\* `x || ''` for a text field that may be missing
orEmpty(obj, field) == IF has(obj, field) THEN obj[field] ELSE <<>>

RECURSIVE skipTag(_)
\* the rest of the markup after the tag that was just entered
skipTag(html) ==
  IF html = <<>> THEN <<>>
  ELSE IF Head(html) = ">" THEN Tail(html)
  ELSE skipTag(Tail(html))

RECURSIVE stripHtml(_)
\* stripHtml: the text content of the markup (tags dropped, text kept)
stripHtml(html) ==
  IF html = <<>> THEN <<>>
  ELSE IF Head(html) = "<" THEN stripHtml(skipTag(Tail(html)))
  ELSE <<Head(html)>> \o stripHtml(Tail(html))

\* the element-wise map of extractTags and extractCategories
nameOf(x) ==
  IF x.type = "string" THEN x.value ELSE orEmpty(x, "name")

\* extractTags
extractTags(post) ==
  IF ~has(post, "tags") THEN <<>>
  ELSE IF post.tags.type = "array"
       THEN [i \in 1..Len(post.tags.items) |-> nameOf(post.tags.items[i])]
       ELSE <<>>

\* extractCategories
extractCategories(post) ==
  IF ~has(post, "categories") THEN <<>>
  ELSE IF post.categories.type = "array"
       THEN [i \in 1..Len(post.categories.items) |->
               nameOf(post.categories.items[i])]
       ELSE <<>>

\* a Document whose url is the path of the entry when it has one
toDocumentPathFirst(post) ==
  [title      |-> orEmpty(post, "title"),
   url        |-> IF orEmpty(post, "path") # <<>> THEN post.path
                  ELSE orEmpty(post, "url"),
   content    |-> stripHtml(orEmpty(post, "content")),
   tags       |-> extractTags(post),
   categories |-> extractCategories(post)]

\* the Document built from one raw entry
toDocument(post) ==
  [title      |-> orEmpty(post, "title"),
   url        |-> IF orEmpty(post, "url") # <<>> THEN post.url
                  ELSE orEmpty(post, "path"),
   content    |-> stripHtml(orEmpty(post, "content")),
   tags       |-> extractTags(post),
   categories |-> extractCategories(post)]

\* processSearchData throws (data is null: `data.posts` is a TypeError)
processThrows(data) == data.type = "null"

\* processSearchData
processSearchData(data) ==
  LET posts == IF data.type = "array" THEN data.items
               ELSE IF has(data, "posts") THEN data.posts.items
               ELSE <<>>
  IN  Arr([i \in 1..Len(posts) |-> toDocument(posts[i])])

----------------------------------------------------------------------------
(* Searching and rendering *)

\* Array.prototype.some over a sequence of texts
someIncludes(texts, keywordLower) ==
  \E i \in 1..Len(texts) : includes(toLowerCase(texts[i]), keywordLower)

\* the match flags computed without lowering the fields of the post
matchedInCaseSensitive(post, keywordLower) ==
  [title      |-> includes(post.title, keywordLower),
   content    |-> includes(post.content, keywordLower),
   tags       |-> \E i \in 1..Len(post.tags) :
                    includes(post.tags[i], keywordLower),
   categories |-> \E i \in 1..Len(post.categories) :
                    includes(post.categories[i], keywordLower)]

\* the body of the loop of search for one post: the four match flags
matchedIn(post, keywordLower) ==
  [title      |-> includes(toLowerCase(post.title), keywordLower),
   content    |-> includes(toLowerCase(post.content), keywordLower),
   tags       |-> someIncludes(post.tags, keywordLower),
   categories |-> someIncludes(post.categories, keywordLower)]

\* a score that counts the best matching field alone
scoreOfBestField(m) ==
  IF m.title THEN 10
  ELSE IF m.tags THEN 5
  ELSE IF m.categories THEN 3
  ELSE IF m.content THEN 1
  ELSE 0

\* the relevance score of search
scoreOf(m) ==
  (IF m.title THEN 10 ELSE 0) + (IF m.tags THEN 5 ELSE 0)
    + (IF m.categories THEN 3 ELSE 0) + (IF m.content THEN 1 ELSE 0)

\* the posts pushed by the loop of search, in collection order
matches(keyword, posts) ==
  LET keywordLower == toLowerCase(keyword)
      hit(i) == LET m == matchedIn(posts[i], keywordLower)
                IN  m.title \/ m.content \/ m.tags \/ m.categories
      item(i) == LET m == matchedIn(posts[i], keywordLower)
                 IN  [post |-> posts[i], score |-> scoreOf(m), matchedIn |-> m]
      all == [i \in 1..Len(posts) |-> item(i)]
      RECURSIVE pick(_)
      pick(i) == IF i > Len(posts) THEN <<>>
                 ELSE (IF hit(i) THEN <<all[i]>> ELSE <<>>) \o pick(i + 1)
  IN  pick(1)

RECURSIVE insertBeforeEqual(_, _)
\* x put before the elements of its own score: a sort that is not stable
insertBeforeEqual(sorted, x) ==
  IF sorted = <<>> THEN <<x>>
  ELSE IF Head(sorted).score > x.score
       THEN <<Head(sorted)>> \o insertBeforeEqual(Tail(sorted), x)
       ELSE <<x>> \o sorted

RECURSIVE insertByScore(_, _)
\* x put into the sorted sequence after every element that does not score less
insertByScore(sorted, x) ==
  IF sorted = <<>> THEN <<x>>
  ELSE IF Head(sorted).score >= x.score
       THEN <<Head(sorted)>> \o insertByScore(Tail(sorted), x)
       ELSE <<x>> \o sorted

\* the results left in collection order
unsorted(items) == items

RECURSIVE sortByScore(_)
\* results.sort((a, b) => b.score - a.score): descending and stable
sortByScore(items) ==
  IF items = <<>> THEN <<>>
  ELSE insertByScore(sortByScore(SubSeq(items, 1, Len(items) - 1)),
                     items[Len(items)])

\* search throws a TypeError: the title of a post is no text
\* (`post.title.toLowerCase is not a function`)
searchThrows(data) ==
  \E i \in 1..Len(data.items) : ~isText(data.items[i].title)

\* search
search(keyword, data) == sortByScore(matches(keyword, data.items))

\* what #search-results holds
Content(kind, keyword, items) ==
  [kind |-> kind, keyword |-> keyword, items |-> items]

Empty == Content("empty", <<>>, <<>>)
Loading == Content("loading", <<>>, <<>>)
LoadError == Content("error", <<>>, <<>>)

\* the default of the parameter maxLength of getExcerpt, and the numbers of
\* characters it keeps before and after the match
maxLength == 150
charsBefore == 50
charsAfter == 100

\* the truncation marker
ellipsis == <<".", ".", ".">>

\* getExcerpt
getExcerpt(content, keyword) ==
  IF content = <<>> THEN <<>>
  ELSE
    LET keywordLower == toLowerCase(keyword)
        contentLower == toLowerCase(content)
        index == indexOf(contentLower, keywordLower)
        max(a, b) == IF a >= b THEN a ELSE b
        min(a, b) == IF a <= b THEN a ELSE b
        start == max(0, index - charsBefore)
        end == min(Len(content), index + Len(keyword) + charsAfter)
    IN  IF index = -1
          THEN substring(content, 0, maxLength)
                 \o (IF Len(content) > maxLength THEN ellipsis ELSE <<>>)
          ELSE (IF start > 0 THEN ellipsis ELSE <<>>)
                 \o substring(content, start, end)
                 \o (IF end < Len(content) THEN ellipsis ELSE <<>>)

\* the characters that highlight escapes in the keyword
specialChars ==
  {".", "*", "+", "?", "^", "$", "{", "}", "(", ")", "|", "[", "]", "\\"}

\* the keyword used as the pattern as it is
unescapedKeyword(keyword) == keyword

RECURSIVE escapedKeyword(_)
\* keyword.replace(/[.*+?^${}()|[\]\\]/g, '\\$&')
escapedKeyword(keyword) ==
  IF keyword = <<>> THEN <<>>
  ELSE (IF Head(keyword) \in specialChars
          THEN <<"\\", Head(keyword)>>
          ELSE <<Head(keyword)>>)
         \o escapedKeyword(Tail(keyword))

RECURSIVE atomsOf(_)
\* new RegExp: the atoms of a pattern of characters, escaped characters and
\* dots; a dot matches any character, every other atom one character
atomsOf(pattern) ==
  IF pattern = <<>> THEN <<>>
  ELSE IF Head(pattern) = "\\" /\ Len(pattern) >= 2
    THEN <<[any |-> FALSE, char |-> pattern[2]]>>
           \o atomsOf(SubSeq(pattern, 3, Len(pattern)))
  ELSE <<[any |-> Head(pattern) = ".", char |-> Head(pattern)]>>
         \o atomsOf(Tail(pattern))

\* the canonical form of a character under the flag i: its upper case when
\* that is one character
canonicalize(c) ==
  CASE c = "a" -> "A"
    [] c = "b" -> "B"
    [] OTHER -> c

\* the atoms match the text at the 0-based index at
matchesAt(atoms, text, at) ==
  /\ at + Len(atoms) <= Len(text)
  /\ \A k \in 1..Len(atoms) :
       \/ atoms[k].any
       \/ canonicalize(atoms[k].char) = canonicalize(text[at + k])

\* the tags that the replacement puts around a match
MarkOpen == "<mark>"
MarkClose == "</mark>"

RECURSIVE replaceFrom(_, _, _)
\* String.prototype.replace with a global pattern, from index at on: the
\* next match is wrapped and the scan goes on behind it
replaceFrom(text, atoms, at) ==
  LET hits == {i \in at..(Len(text) - Len(atoms)) : matchesAt(atoms, text, i)}
  IN  IF hits = {} THEN SubSeq(text, at + 1, Len(text))
      ELSE LET i == CHOOSE h \in hits : \A j \in hits : h <= j
           IN  SubSeq(text, at + 1, i)
                 \o <<MarkOpen>> \o SubSeq(text, i + 1, i + Len(atoms))
                 \o <<MarkClose>>
                 \o replaceFrom(text, atoms, i + Len(atoms))

\* highlight
highlight(text, keyword) ==
  IF text = <<>> \/ keyword = <<>> THEN text
  ELSE replaceFrom(text, atomsOf(escapedKeyword(keyword)), 0)

\* a tag block of all the tags
renderedTagsAll(tags, keyword) ==
  [k \in 1..Len(tags) |-> highlight(tags[k], keyword)]

\* the tag block of an item: the first three tags, highlighted
renderedTags(tags, keyword) ==
  LET shown == IF Len(tags) > 3 THEN 3 ELSE Len(tags)
  IN  [k \in 1..shown |-> highlight(tags[k], keyword)]

\* the body of the map of renderResults: one result as an item
renderedItem(result, keyword) ==
  LET excerpt == getExcerpt(result.post.content, keyword)
  IN  [post |-> result.post,
       score |-> result.score,
       matchedIn |-> result.matchedIn,
       excerpt |-> excerpt,
       highlightedTitle |-> highlight(result.post.title, keyword),
       highlightedExcerpt |-> highlight(excerpt, keyword),
       tags |-> renderedTags(result.post.tags, keyword)]

\* renderResults: the placeholder with the suggestion, or per result and in
\* their order one item
renderResults(found, keyword) ==
  IF Len(found) = 0 THEN Content("no-results", <<>>, <<>>)
  ELSE Content("items", keyword,
               [i \in 1..Len(found) |-> renderedItem(found[i], keyword)])

----------------------------------------------------------------------------
(* The engine: the methods of SearchEngine as functions of the state *)

State ==
  [searchData |-> searchData, isLoading |-> isLoading, isOpen |-> isOpen,
   formWrapOpen |-> formWrapOpen, inputVal |-> inputVal, results |-> results,
   debounceTimer |-> debounceTimer, timers |-> timers,
   fetching |-> fetching,
   parsing |-> parsing, fetchCount |-> fetchCount,
   successCount |-> successCount, failures |-> failures, calls |-> calls,
   uncaught |-> uncaught, parsedBody |-> parsedBody]

\* the state the event leaves behind
Becomes(s) ==
  /\ searchData' = s.searchData
  /\ isLoading' = s.isLoading
  /\ isOpen' = s.isOpen
  /\ formWrapOpen' = s.formWrapOpen
  /\ inputVal' = s.inputVal
  /\ results' = s.results
  /\ debounceTimer' = s.debounceTimer
  /\ timers' = s.timers
  /\ fetching' = s.fetching
  /\ parsing' = s.parsing
  /\ fetchCount' = s.fetchCount
  /\ successCount' = s.successCount
  /\ failures' = s.failures
  /\ calls' = s.calls
  /\ uncaught' = s.uncaught
  /\ parsedBody' = s.parsedBody
  /\ UNCHANGED handlerOrder
  /\ UNCHANGED encryptionVars

\* a new event begins: no method has been entered yet
Event == [State EXCEPT !.calls = {}, !.uncaught = FALSE]

entered(s, method) == [s EXCEPT !.calls = @ \cup {method}]

\* loadSearchData that does not set the flag
loadSearchDataNoFlag(s) ==
  [entered(s, "loadSearchData") EXCEPT
     !.results = Loading,
     !.fetching = @ + 1,
     !.fetchCount = @ + 1]

\* loadSearchData up to its first await: the flag, the indicator, the fetch
loadSearchData(s) ==
  [entered(s, "loadSearchData") EXCEPT
     !.isLoading = TRUE,
     !.results = Loading,
     !.fetching = @ + 1,
     !.fetchCount = @ + 1]

\* a search that sorts the collection itself, in place, and renders it
searchAndRenderInPlace(s, keyword) ==
  IF searchThrows(s.searchData)
    THEN [entered(s, "search") EXCEPT !.uncaught = TRUE]
    ELSE LET ranked == search(keyword, s.searchData)
             rest == SelectSeq(s.searchData.items,
                               LAMBDA d : \A n \in 1..Len(ranked) :
                                            ranked[n].post # d)
         IN  [entered(entered(s, "search"), "renderResults") EXCEPT
                !.results = renderResults(ranked, keyword),
                !.searchData =
                  Arr([n \in 1..Len(ranked) |-> ranked[n].post] \o rest)]

\* the last two statements of handleSearch: search, then renderResults,
\* unless search throws
searchAndRender(s, keyword) ==
  IF searchThrows(s.searchData)
    THEN [entered(s, "search") EXCEPT !.uncaught = TRUE]
    ELSE [entered(entered(s, "search"), "renderResults") EXCEPT
            !.results = renderResults(search(keyword, s.searchData), keyword)]

\* handleSearch without the isLoading test: every early query starts a load
handleSearchUnguarded(s, value) ==
  LET keyword == trim(value)
      h == entered(s, "handleSearch")
  IN  IF Len(keyword) < minChars
        THEN [h EXCEPT !.results = Empty]
      ELSE IF h.searchData = NULL
        THEN loadSearchData(h)
      ELSE searchAndRender(h, keyword)

\* handleSearch that takes the keyword as it is given
handleSearchNoTrim(s, value) ==
  LET keyword == value
      h == entered(s, "handleSearch")
  IN  IF Len(keyword) < minChars
        THEN [h EXCEPT !.results = Empty]
      ELSE IF h.searchData = NULL
        THEN IF ~h.isLoading THEN loadSearchData(h) ELSE h
      ELSE searchAndRender(h, keyword)

\* handleSearch whose short-query branch returns without clearing the results
handleSearchKeepsResults(s, value) ==
  LET keyword == trim(value)
      h == entered(s, "handleSearch")
  IN  IF Len(keyword) < minChars
        THEN h
      ELSE IF h.searchData = NULL
        THEN IF ~h.isLoading THEN loadSearchData(h) ELSE h
      ELSE searchAndRender(h, keyword)

\* handleSearch that tests the collection before the length of the query
handleSearchLoadsFirst(s, value) ==
  LET keyword == trim(value)
      h == entered(s, "handleSearch")
  IN  IF h.searchData = NULL
        THEN IF ~h.isLoading THEN loadSearchData(h) ELSE h
      ELSE IF Len(keyword) < minChars
        THEN [h EXCEPT !.results = Empty]
      ELSE searchAndRender(h, keyword)

\* handleSearch
handleSearch(s, value) ==
  LET keyword == trim(value)
      h == entered(s, "handleSearch")
  IN  IF Len(keyword) < minChars
        THEN [h EXCEPT !.results = Empty]
      ELSE IF h.searchData = NULL
        THEN IF ~h.isLoading THEN loadSearchData(h) ELSE h
      ELSE searchAndRender(h, keyword)

\* the catch block without the finally block: isLoading is left set
loadFailedNoFinally(s) ==
  [s EXCEPT !.results = LoadError,
            !.failures = @ + 1]

\* the catch and finally blocks of loadSearchData
loadFailed(s) ==
  [s EXCEPT !.results = LoadError,
            !.isLoading = FALSE,
            !.failures = @ + 1]

\* the catch and finally blocks of loadSearchData when the replay has thrown:
\* the collection stays assigned
replayFailed(s) ==
  [s EXCEPT !.uncaught = FALSE,
            !.results = LoadError,
            !.isLoading = FALSE]

\* loadSearchData without the replay of the current input value
loadParsedNoReplay(s, data) ==
  IF processThrows(data) THEN loadFailed(s)
  ELSE [s EXCEPT !.searchData = processSearchData(data),
                 !.results = Empty,
                 !.successCount = @ + 1,
                 !.isLoading = FALSE]

\* loadSearchData from the parsed body to the end of the finally block
loadParsed(s, data) ==
  IF processThrows(data) THEN loadFailed(s)
  ELSE LET l == [s EXCEPT !.searchData = processSearchData(data),
                          !.results = Empty,
                          !.successCount = @ + 1]
           currentValue == l.inputVal
           r == IF currentValue # <<>> /\ Len(currentValue) >= minChars
                  THEN handleSearch(l, currentValue)
                  ELSE l
       IN  IF r.uncaught THEN replayFailed(r)
           ELSE [r EXCEPT !.isLoading = FALSE]

\* openSearch that tests isLoading alone: every open without a load in flight
\* starts one
openSearchIgnoresData(s) ==
  LET o == [entered(s, "openSearch") EXCEPT
              !.isOpen = TRUE, !.formWrapOpen = TRUE]
  IN  IF ~o.isLoading THEN loadSearchData(o) ELSE o

\* openSearch that leaves the load to the first query
openSearchLazy(s) ==
  [entered(s, "openSearch") EXCEPT !.isOpen = TRUE, !.formWrapOpen = TRUE]

\* openSearch
openSearch(s) ==
  LET o == [entered(s, "openSearch") EXCEPT
              !.isOpen = TRUE, !.formWrapOpen = TRUE]
  IN  IF o.searchData = NULL /\ ~o.isLoading THEN loadSearchData(o) ELSE o

\* closeSearch that also drops the loaded collection
closeSearchDiscards(s) ==
  [entered(s, "closeSearch") EXCEPT
     !.isOpen = FALSE,
     !.formWrapOpen = FALSE,
     !.inputVal = <<>>,
     !.results = Empty,
     !.searchData = NULL]

\* closeSearch
closeSearch(s) ==
  [entered(s, "closeSearch") EXCEPT
     !.isOpen = FALSE,
     !.formWrapOpen = FALSE,
     !.inputVal = <<>>,
     !.results = Empty]

\* toggleSearch
toggleSearch(s) == IF s.isOpen THEN closeSearch(s) ELSE openSearch(s)

\* the keydown handler and the document click handler of the engine
closeIfOpen(s) == IF s.isOpen THEN closeSearch(s) ELSE s

\* ids that setTimeout hands out
TimerIds == {1, 2}

\* the input handler without clearTimeout
onInputNoClear(s, value) ==
  LET id == CHOOSE i \in TimerIds \ s.timers :
              \A j \in TimerIds \ s.timers : i <= j
  IN  [s EXCEPT !.inputVal = value,
                !.debounceTimer = id,
                !.timers = @ \cup {id}]

\* the input handler: the value has changed; clearTimeout, setTimeout
onInput(s, value) ==
  LET cleared == s.timers \ {s.debounceTimer}
      id == CHOOSE i \in TimerIds \ cleared :
              \A j \in TimerIds \ cleared : i <= j
  IN  [s EXCEPT !.inputVal = value,
                !.debounceTimer = id,
                !.timers = cleared \cup {id}]

\* the timeout callback: handleSearch(e.target.value), read when it runs
onTimeout(s, id) ==
  handleSearch([s EXCEPT !.timers = @ \ {id}], s.inputVal)

(* The handlers of main.js on the same elements *)

\* click on #search-toggle
mainToggle(s) == [s EXCEPT !.formWrapOpen = ~@]

\* click on .search-close
mainClose(s) ==
  [s EXCEPT !.formWrapOpen = FALSE, !.inputVal = <<>>, !.results = Empty]

\* click on the document outside .header-search
mainOutside(s) == [s EXCEPT !.formWrapOpen = FALSE]

----------------------------------------------------------------------------
(* The Encryption module of src/js/search.js: the stored passwords *)

\* config.sessionDuration: 24 * 60 * 60 * 1000 milliseconds
sessionDuration == 86400000

\* the state of the module and of its page
Encryption ==
  [now |-> now, sessionStorage |-> sessionStorage,
   storageAvailable |-> storageAvailable, pathname |-> pathname,
   hasInput |-> hasInput, passwordInput |-> passwordInput, calls |-> calls]

\* the state an event of the module leaves behind
EncryptionBecomes(e) ==
  /\ now' = e.now
  /\ sessionStorage' = e.sessionStorage
  /\ storageAvailable' = e.storageAvailable
  /\ pathname' = e.pathname
  /\ hasInput' = e.hasInput
  /\ passwordInput' = e.passwordInput
  /\ calls' = e.calls
  /\ UNCHANGED widgetVars

\* getPageId: the path without its trailing slash and with an underscore for
\* every other slash, or 'index'
getPageId(path) ==
  LET cut == IF path # <<>> /\ path[Len(path)] = "/"
               THEN SubSeq(path, 1, Len(path) - 1) ELSE path
      id == [i \in 1..Len(cut) |-> IF cut[i] = "/" THEN "_" ELSE cut[i]]
  IN  IF id = <<>> THEN <<"i", "n", "d", "e", "x">> ELSE id

\* isStorageAvailable
isStorageAvailable(e) == e.storageAvailable

\* getStoredPassword: the parsed item, or null
getStoredPassword(e, pageId) ==
  IF ~isStorageAvailable(e) THEN NULL ELSE e.sessionStorage[pageId]

\* removeStoredPassword
removeStoredPassword(e, pageId) ==
  LET r == entered(e, "removeStoredPassword")
  IN  IF ~isStorageAvailable(r) THEN r
      ELSE [r EXCEPT !.sessionStorage[pageId] = NULL]

\* storePassword
storePassword(e, pageId, password) ==
  LET t == entered(e, "storePassword")
  IN  IF ~isStorageAvailable(t) THEN t
      ELSE [t EXCEPT !.sessionStorage[pageId] =
                       [password |-> password, timestamp |-> t.now]]

\* checkStoredPasswords that takes a password of exactly sessionDuration for
\* valid
checkStoredPasswordsInclusive(e) ==
  LET c == entered(e, "checkStoredPasswords")
      pageId == getPageId(c.pathname)
      storedData == getStoredPassword(c, pageId)
  IN  IF storedData = NULL THEN c
      ELSE IF storedData.password = <<>> THEN c
      ELSE IF c.now - storedData.timestamp <= sessionDuration
        THEN IF c.hasInput
               THEN [c EXCEPT !.passwordInput = storedData.password]
               ELSE c
      ELSE removeStoredPassword(c, pageId)

\* checkStoredPasswords
checkStoredPasswords(e) ==
  LET c == entered(e, "checkStoredPasswords")
      pageId == getPageId(c.pathname)
      storedData == getStoredPassword(c, pageId)
  IN  IF storedData = NULL THEN c
      ELSE IF storedData.password = <<>> THEN c
      ELSE IF c.now - storedData.timestamp < sessionDuration
        THEN IF c.hasInput
               THEN [c EXCEPT !.passwordInput = storedData.password]
               ELSE c
      ELSE removeStoredPassword(c, pageId)

\* onDecryptSuccess: the password of the input is stored for the page
onDecryptSuccess(e) ==
  LET d == entered(e, "onDecryptSuccess")
      pageId == getPageId(d.pathname)
      password == IF d.hasInput THEN d.passwordInput ELSE <<>>
  IN  IF password # <<>> THEN storePassword(d, pageId, password) ELSE d

\* the pages of the site
Paths == {<<"/">>, <<"/", "a">>, <<"/", "a", "/">>}

PageIds == {getPageId(path) : path \in Paths}

\* the module after the first page of the tab has been loaded: sessionStorage
\* is empty and init has found nothing
EncryptionLoaded ==
  /\ now = 0
  /\ sessionStorage = [id \in PageIds |-> NULL]
  /\ storageAvailable = TRUE
  /\ pathname = <<"/">>
  /\ hasInput = FALSE
  /\ passwordInput = <<>>

----------------------------------------------------------------------------
(* The environment: what the user types and what the server answers *)

\* values the input box is given by the user
Values ==
  {<<>>, <<"a">>, <<" ", "a">>, <<"a", "b">>, <<"B", "a">>}

\* search.json as a flat list of entries
IndexList ==
  Arr(<<[title      |-> <<"A", "b">>,
         url        |-> <<"u">>,
         path       |-> <<"p">>,
         content    |-> <<"<", "i", ">", "b", "a">>,
         tags       |-> Arr(<<Txt(<<"a", "b">>)>>),
         categories |-> Arr(<<Named(<<"b">>)>>)],
        [title      |-> <<"b", "a">>,
         path       |-> <<"p">>,
         content    |-> <<"a", "b">>]>>)

\* search.json as an object with a posts list
IndexPosts ==
  [type  |-> "object",
   posts |-> Arr(<<[title |-> <<"b", "a">>,
                    tags  |-> Arr(<<Named(<<"x">>), [type |-> "object"]>>)]>>)]

\* search.json as an object without posts
IndexNoPosts == [type |-> "object"]

\* search.json with a post whose title is a number
IndexNumberTitle ==
  Arr(<<[title   |-> aNumber,
         url     |-> <<"u">>,
         content |-> <<"a", "b">>]>>)

\* bodies that are valid JSON: three indexes whose entries hold text where
\* text is expected, one that holds a number as a title, and null, on which
\* processSearchData throws
Bodies == {IndexList, IndexPosts, IndexNoPosts, IndexNumberTitle, NULL}

----------------------------------------------------------------------------
(* The events *)

Init ==
  /\ searchData = NULL
  /\ isLoading = FALSE
  /\ isOpen = FALSE
  /\ formWrapOpen = FALSE
  /\ inputVal = <<>>
  /\ results = Empty
  /\ debounceTimer = 0
  /\ timers = {}
  /\ fetching = 0
  /\ parsing = 0
  /\ fetchCount = 0
  /\ successCount = 0
  /\ failures = 0
  /\ handlerOrder \in {"main-first", "search-first"}
  /\ calls = {}
  /\ uncaught = FALSE
  /\ parsedBody = NoBody
  /\ EncryptionLoaded

\* a click on #search-toggle: both scripts' handlers, in binding order
\* (main.js stops the propagation, so the document handlers do not run)
ToggleClick ==
  Becomes(IF handlerOrder = "main-first"
            THEN toggleSearch(mainToggle(Event))
            ELSE mainToggle(toggleSearch(Event)))

\* a click on .search-close: both scripts' handlers, in binding order (the
\* button lies inside .header-search, so the document handlers do nothing)
CloseClick ==
  Becomes(IF handlerOrder = "main-first"
            THEN closeSearch(mainClose(Event))
            ELSE mainClose(closeSearch(Event)))

\* a click outside .header-search, which reaches both document handlers
OutsideClick ==
  Becomes(IF handlerOrder = "main-first"
            THEN closeIfOpen(mainOutside(Event))
            ELSE mainOutside(closeIfOpen(Event)))

\* the Escape key
EscapeKey == Becomes(closeIfOpen(Event))

\* an input event on #search-input: the user types in the box, which is shown
\* (and focused by both scripts) while the wrap carries is-open
Input(value) ==
  /\ formWrapOpen
  /\ value # inputVal
  /\ timers \ {debounceTimer} # TimerIds
  /\ Becomes(onInput(Event, value))

\* a pending timeout expires
TimerFire ==
  \E id \in timers : Becomes(onTimeout(Event, id))

\* fetch rejects (network failure)
FetchRejected ==
  /\ fetching > 0
  /\ failures < MaxFailures
  /\ Becomes(loadFailed([Event EXCEPT !.fetching = @ - 1]))

\* fetch resolves with a response that is not ok
FetchNotOk ==
  /\ fetching > 0
  /\ failures < MaxFailures
  /\ Becomes(loadFailed([Event EXCEPT !.fetching = @ - 1]))

\* fetch resolves with an ok response: the load waits for the body
FetchOk ==
  /\ fetching > 0
  /\ Becomes([Event EXCEPT !.fetching = @ - 1, !.parsing = @ + 1])

\* response.json() rejects: the body is not valid JSON
JsonInvalid ==
  /\ parsing > 0
  /\ failures < MaxFailures
  /\ Becomes(loadFailed([Event EXCEPT !.parsing = @ - 1]))

\* response.json() resolves with the parsed body
JsonParsed(data) ==
  /\ parsing > 0
  /\ processThrows(data) => failures < MaxFailures
  /\ Becomes(loadParsed([Event EXCEPT !.parsing = @ - 1,
                                      !.parsedBody = data], data))

Next ==
  \/ ToggleClick
  \/ CloseClick
  \/ OutsideClick
  \/ EscapeKey
  \/ \E value \in Values : Input(value)
  \/ TimerFire
  \/ FetchRejected
  \/ FetchNotOk
  \/ FetchOk
  \/ JsonInvalid
  \/ \E data \in Bodies : JsonParsed(data)

Spec == Init /\ [][Next]_vars

----------------------------------------------------------------------------
(* Searching on its own: any small collection is loaded, any short text is in
   the box and its debounce timer is about to expire *)

Alphabet == {"a", "A", "b"}

\* every text of at most MaxLen letters
Texts == UNION {[1..n -> Alphabet] : n \in 0..MaxLen}

\* the texts of the fields that are not varied
Pool == {<<>>, <<"b", "A">>}

\* tags or categories that are not varied
PoolLists == {<<>>} \cup {<<p>> : p \in Pool}

\* tags or categories of which one element is varied
TextLists == {<<t>> : t \in Texts} \cup {<<<<"b", "A">>, t>> : t \in Texts}

\* Documents as processSearchData builds them, one field varied at a time
Documents ==
  {[title |-> t, url |-> <<>>, content |-> c, tags |-> g, categories |-> k] :
     t \in Texts, c \in Pool, g \in PoolLists, k \in PoolLists}
  \cup
  {[title |-> t, url |-> <<>>, content |-> c, tags |-> g, categories |-> k] :
     t \in Pool, c \in Texts, g \in PoolLists, k \in PoolLists}
  \cup
  {[title |-> t, url |-> <<>>, content |-> c, tags |-> g, categories |-> k] :
     t \in Pool, c \in Pool, g \in TextLists, k \in PoolLists}
  \cup
  {[title |-> t, url |-> <<>>, content |-> c, tags |-> g, categories |-> k] :
     t \in Pool, c \in Pool, g \in PoolLists, k \in TextLists}

\* a Document that stands before or after the varied one
Neighbour ==
  [title |-> <<"a", "b">>, url |-> <<>>, content |-> <<"B", "a">>,
   tags |-> <<>>, categories |-> <<<<"A">>>>]

\* a Document that stands last of three
Last ==
  [title |-> <<>>, url |-> <<>>, content |-> <<"b", "a">>,
   tags |-> <<<<"A", "b">>>>, categories |-> <<>>]

Collections ==
  {<<d>> : d \in Documents}
    \cup {<<Neighbour, d>> : d \in Documents}
    \cup {<<d, Neighbour>> : d \in Documents}
    \cup {<<Neighbour, d, Last>> : d \in Documents}

SearchInit ==
  /\ searchData \in {Arr(c) : c \in Collections}
  /\ inputVal \in Texts
  /\ isLoading = FALSE
  /\ isOpen = TRUE
  /\ formWrapOpen = TRUE
  /\ results = Empty
  /\ debounceTimer = 1
  /\ timers = {1}
  /\ fetching = 0
  /\ parsing = 0
  /\ fetchCount = 1
  /\ successCount = 1
  /\ failures = 0
  /\ handlerOrder = "main-first"
  /\ calls = {}
  /\ uncaught = FALSE
  /\ parsedBody = NoBody
  /\ EncryptionLoaded

SearchNext == TimerFire

SearchSpec == SearchInit /\ [][SearchNext]_vars

----------------------------------------------------------------------------
(* processSearchData on its own: a load waits for the body of its response,
   and the body is any small index *)

\* a field that an entry lacks, and a field that it gives
Missing == <<>>
Given(value) == <<value>>

\* the part of a raw entry that one field makes
field(name, option) ==
  IF option = Missing THEN [x \in {} |-> x] ELSE name :> option[1]

\* what an entry may give as its tags or its categories
RawLists ==
  {Missing,
   Given(Arr(<<>>)),
   Given(Arr(<<Txt(<<"a">>)>>)),
   Given(Arr(<<Named(<<"b">>), Txt(<<"a">>)>>)),
   Given(Arr(<<[type |-> "object"], Named(<<"b">>)>>)),
   Given(Txt(<<"a">>))}

\* the raw entries
RawEntries ==
  {field("title", t) @@ field("url", u) @@ field("path", p)
     @@ field("content", c) @@ field("tags", g) @@ field("categories", k) :
     t \in {Missing, Given(<<"A", "b">>)},
     u \in {Missing, Given(<<>>), Given(<<"u">>)},
     p \in {Missing, Given(<<"p">>)},
     c \in {Missing, Given(<<"<", "i", ">", "b", "a">>)},
     g \in RawLists,
     k \in {Missing, Given(Arr(<<Named(<<"b">>), Txt(<<"a">>)>>))}}

\* an entry that stands before or after the varied one
RawNeighbour ==
  field("title", Given(<<"b">>)) @@ field("path", Given(<<"p">>))

\* the lists of raw entries
RawPosts ==
  {<<>>} \cup {<<e>> : e \in RawEntries}
    \cup {<<e, RawNeighbour>> : e \in RawEntries}
    \cup {<<RawNeighbour, e>> : e \in RawEntries}

\* search.json: a flat list, an object with posts, an object without
RawBodies ==
  {Arr(posts) : posts \in RawPosts}
    \cup {[type |-> "object", posts |-> Arr(posts)] : posts \in RawPosts}
    \cup {[type |-> "object"]}

LoadInit ==
  /\ searchData = NULL
  /\ inputVal = <<>>
  /\ isLoading = TRUE
  /\ isOpen = TRUE
  /\ formWrapOpen = TRUE
  /\ results = Loading
  /\ debounceTimer = 0
  /\ timers = {}
  /\ fetching = 0
  /\ parsing = 1
  /\ fetchCount = 1
  /\ successCount = 0
  /\ failures = 0
  /\ handlerOrder = "main-first"
  /\ calls = {"openSearch", "loadSearchData"}
  /\ uncaught = FALSE
  /\ parsedBody = NoBody
  /\ EncryptionLoaded

LoadNext == \E data \in RawBodies : JsonParsed(data)

LoadSpec == LoadInit /\ [][LoadNext]_vars

----------------------------------------------------------------------------
(* The Encryption module on its own: pages are loaded in one tab, passwords
   are typed and accepted, and time passes *)

\* the clock is read up to this many sessionDurations after the start
MaxDays == 2

\* the passwords that are typed
Passwords == {<<"p">>, <<"q">>}

\* by how much the clock advances between two events
Delays == {1, sessionDuration - 1}

\* the instants the clock reaches
Instants ==
  {days * (sessionDuration - 1) + ms : days \in 0..MaxDays, ms \in 0..MaxDays}

EncryptionInit ==
  /\ searchData = NULL
  /\ isLoading = FALSE
  /\ isOpen = FALSE
  /\ formWrapOpen = FALSE
  /\ inputVal = <<>>
  /\ results = Empty
  /\ debounceTimer = 0
  /\ timers = {}
  /\ fetching = 0
  /\ parsing = 0
  /\ fetchCount = 0
  /\ successCount = 0
  /\ failures = 0
  /\ handlerOrder = "main-first"
  /\ calls = {}
  /\ uncaught = FALSE
  /\ parsedBody = NoBody
  /\ now = 0
  /\ sessionStorage = [id \in PageIds |-> NULL]
  /\ storageAvailable \in BOOLEAN
  /\ pathname = <<"/">>
  /\ hasInput \in BOOLEAN
  /\ passwordInput = <<>>

\* a page is loaded in the tab: Encryption.init runs checkStoredPasswords
PageLoad(path, withInput) ==
  EncryptionBecomes(
    checkStoredPasswords([Encryption EXCEPT !.calls = {},
                                            !.pathname = path,
                                            !.hasInput = withInput,
                                            !.passwordInput = <<>>]))

\* the user types a password
TypePassword(password) ==
  /\ hasInput
  /\ password # passwordInput
  /\ EncryptionBecomes([Encryption EXCEPT !.calls = {},
                                          !.passwordInput = password])

\* the plugin has decrypted the page and calls onDecryptSuccess
DecryptSuccess ==
  /\ hasInput
  /\ EncryptionBecomes(onDecryptSuccess([Encryption EXCEPT !.calls = {}]))

\* time passes
Tick(delay) ==
  /\ now + delay \in Instants
  /\ EncryptionBecomes([Encryption EXCEPT !.calls = {}, !.now = @ + delay])

EncryptionNext ==
  \/ \E path \in Paths, withInput \in BOOLEAN : PageLoad(path, withInput)
  \/ \E password \in Passwords \cup {<<>>} : TypePassword(password)
  \/ DecryptSuccess
  \/ \E delay \in Delays : Tick(delay)

EncryptionSpec == EncryptionInit /\ [][EncryptionNext]_vars

----------------------------------------------------------------------------
(* getExcerpt on its own: one Document that the query finds by its title,
   with contents that put the match at the edges of the window *)

\* how far around the edges of the window the contents vary
Slack == 1

\* n times the character c
Repeat(c, n) == [i \in 1..n |-> c]

\* the numbers of characters before the match
LengthsBefore ==
  (0..Slack) \cup ((charsBefore - Slack)..(charsBefore + Slack))

\* the numbers of characters after the match
LengthsAfter ==
  (0..Slack) \cup ((charsAfter - Slack)..(charsAfter + Slack))
    \cup ((maxLength - Slack)..(maxLength + Slack))

\* what stands where the query may match
Cores == {<<"a", "b">>, <<"A", "B">>, <<"b", "b">>}

\* the contents
ExcerptContents ==
  {<<>>} \cup
  {Repeat(c, n) \o core \o Repeat("b", m) :
     c \in {"b", IDot}, n \in LengthsBefore, core \in Cores,
     m \in LengthsAfter}

\* the queries
ExcerptQueries == {<<"a", "b">>, <<"a", "B">>}

ExcerptInit ==
  /\ \E q \in ExcerptQueries, c \in ExcerptContents :
       /\ inputVal = q
       /\ searchData = Arr(<<[title |-> q, url |-> <<>>, content |-> c,
                              tags |-> <<>>, categories |-> <<>>]>>)
  /\ isLoading = FALSE
  /\ isOpen = TRUE
  /\ formWrapOpen = TRUE
  /\ results = Empty
  /\ debounceTimer = 1
  /\ timers = {1}
  /\ fetching = 0
  /\ parsing = 0
  /\ fetchCount = 1
  /\ successCount = 1
  /\ failures = 0
  /\ handlerOrder = "main-first"
  /\ calls = {}
  /\ uncaught = FALSE
  /\ parsedBody = NoBody
  /\ EncryptionLoaded

ExcerptNext == TimerFire

ExcerptSpec == ExcerptInit /\ [][ExcerptNext]_vars

----------------------------------------------------------------------------
(* renderResults and highlight on their own: one Document with texts that
   hold a character of special meaning in a pattern *)

\* longest title or content drawn in RenderSpec
MaxTextLen == 3

\* most tags of a Document in RenderSpec
MaxTags == 4

RenderAlphabet == {"a", "A", ".", "b"}

\* every text of at most MaxTextLen characters
RenderTexts == UNION {[1..n -> RenderAlphabet] : n \in 0..MaxTextLen}

\* the queries: every text of minChars characters
RenderQueries == [1..minChars -> RenderAlphabet]

\* the tags a Document is given, in this order
TagPool(n) ==
  CASE n = 1 -> <<"a", "b">>
    [] n = 2 -> <<"A", ".">>
    [] n = 3 -> <<"a", "a", "a">>
    [] OTHER -> <<"b">>

\* the first n tags
TagsUpTo(n) == [k \in 1..n |-> TagPool(k)]

\* a Document that follows the varied one in the collection
Follower(q) ==
  [title |-> q, url |-> <<>>, content |-> <<>>, tags |-> <<>>,
   categories |-> <<>>]

RenderInit ==
  /\ \E q \in RenderQueries, t \in RenderTexts, n \in 0..MaxTags,
        inTitle \in BOOLEAN, byCategory \in BOOLEAN, followed \in BOOLEAN :
       LET d == [title |-> IF inTitle THEN t ELSE <<>>,
                 url |-> <<>>,
                 content |-> IF inTitle THEN <<>> ELSE t,
                 tags |-> TagsUpTo(n),
                 categories |-> IF byCategory THEN <<q>> ELSE <<>>]
       IN  /\ inputVal = q
           /\ searchData =
                Arr(IF followed THEN <<d, Follower(q)>> ELSE <<d>>)
  /\ isLoading = FALSE
  /\ isOpen = TRUE
  /\ formWrapOpen = TRUE
  /\ results = Empty
  /\ debounceTimer = 1
  /\ timers = {1}
  /\ fetching = 0
  /\ parsing = 0
  /\ fetchCount = 1
  /\ successCount = 1
  /\ failures = 0
  /\ handlerOrder = "main-first"
  /\ calls = {}
  /\ uncaught = FALSE
  /\ parsedBody = NoBody
  /\ EncryptionLoaded

RenderNext == TimerFire

RenderSpec == RenderInit /\ [][RenderNext]_vars

----------------------------------------------------------------------------
(* Properties of the session *)

\* a load is in flight
inFlight == fetching + parsing

\* the query handleSearch works on when it is given the input value
query == trim(inputVal)

\* C1: at most one fetch of the index is in flight at any time; a query
\* handled while a load is in flight does not start another one.
C1_AtMostOneFetchInFlight ==
  /\ inFlight <= 1
  /\ inFlight = 1 => isLoading

\* C1 witness: a query long enough to search was handled while the load was
\* in flight, and no second fetch was issued.
C1_QueryDuringLoading ==
  /\ isLoading /\ inFlight = 1 /\ fetchCount = 1
  /\ Len(query) >= minChars
  /\ "handleSearch" \in calls /\ "loadSearchData" \notin calls

\* C2: once a load has succeeded no further fetch is issued and searchData
\* keeps its value; the session has exactly one successful load.
C2_NoRefetchAfterSuccess ==
  /\ [](searchData # NULL => successCount = 1)
  /\ [](successCount <= 1)
  /\ [][searchData # NULL =>
          (fetchCount' = fetchCount /\ searchData' = searchData)]_vars

\* C2 witness: the widget is reopened after a successful load and a close,
\* and the only fetch of the session is the first one.
C2_ReopenedAfterLoad ==
  /\ searchData # NULL /\ searchData.items # <<>>
  /\ "openSearch" \in calls
  /\ fetchCount = 1 /\ successCount = 1 /\ inFlight = 0

\* C3 (as claimed): after closeSearch no debounce timer is pending.
C3_CloseCancelsTimer == "closeSearch" \in calls => timers = {}

\* C4 (as claimed): while the widget is closed the results area is empty.
C4_StaleResultGuard == ~isOpen => results = Empty

\* C5 (as claimed): when the load succeeds and the input box holds at least
\* minChars characters, the latest input value is searched and rendered.
C5_ReplayOfRawInput ==
  [][(successCount' = successCount + 1 /\ Len(inputVal) >= minChars) =>
       (/\ inputVal' = inputVal
        /\ results' = renderResults(search(query, searchData'), query))]_vars

\* C5 (amended): when the load succeeds and the input box holds a value whose
\* trimmed form has at least minChars characters, exactly that trimmed latest
\* value is searched in the loaded collection, whether or not its debounce
\* timer is still pending, and its results are rendered, or the load error
\* message when the search throws on an entry of the collection.
C5_ReplayOfLatestInput ==
  [][(successCount' = successCount + 1 /\ Len(query) >= minChars) =>
       (/\ inputVal' = inputVal
        /\ "search" \in calls'
        /\ results' = IF searchThrows(searchData')
                        THEN LoadError
                        ELSE renderResults(search(query, searchData'), query))]_vars

\* C5 witness: the load has just completed with a query in the box whose
\* timer has not fired yet, and the results of that query are shown.
C5_ReplayedWhileTimerPending ==
  /\ successCount = 1 /\ timers # {} /\ "search" \in calls
  /\ results.kind = "items" /\ results.keyword = query

\* C6 (as claimed): while a fetch is in flight the results area shows the
\* loading indicator.
C6_LoadingShowsIndicator == isLoading => results = Loading

\* C7 (as claimed): a search runs only once the debounce timer of the value
\* has expired, so none runs while a timer is pending.
C7_SearchOnlyAfterDebounce == "search" \in calls => timers = {}

\* C7 (amended): every input event cancels the pending timer, so at most one
\* timer is pending; a search is run only by the expiry of that timer or by
\* the replay at the end of a successful load, and never by the input event
\* itself.
C7_SearchByTimerOrReplay ==
  /\ [](Cardinality(timers) <= 1 /\ timers \subseteq {debounceTimer})
  /\ [][(calls' # calls /\ "search" \in calls') =>
          (\/ timers # {} /\ timers' = {}
           \/ successCount' = successCount + 1)]_vars

\* C7 witness: the expiry of the only timer has searched the value typed last,
\* over the results of an earlier value.
C7_TimerExpirySearches ==
  /\ timers = {} /\ debounceTimer # 0 /\ isOpen /\ successCount = 1
  /\ calls = {"handleSearch", "search", "renderResults"}
  /\ results.kind = "items" /\ results.keyword = query

\* C8 (as claimed): opening the widget issues no fetch.
C8_OpenIssuesNoFetch ==
  "openSearch" \in calls => "loadSearchData" \notin calls

\* C8 (amended): nothing is fetched at construction; a fetch is issued only by
\* openSearch or handleSearch, and only when no collection is available and
\* no load is in flight; opening the widget in that situation issues it.
C8_LoadedOnFirstOpen ==
  /\ (fetchCount = 0 /\ ~isLoading /\ ~isOpen /\ searchData = NULL)
  /\ [][fetchCount' # fetchCount =>
          (/\ fetchCount' = fetchCount + 1
           /\ searchData = NULL /\ ~isLoading /\ isLoading'
           /\ calls' \cap {"openSearch", "handleSearch"} # {})]_vars
  /\ [][(/\ calls' # calls
           /\ "openSearch" \in calls'
           /\ searchData = NULL
           /\ ~isLoading)
          => (isOpen' /\ isLoading' /\ fetchCount' = fetchCount + 1)]_vars

\* C8 witness: the first open of the session has issued the first fetch.
C8_FirstOpenFetches ==
  /\ isOpen /\ isLoading /\ fetchCount = 1 /\ failures = 0
  /\ {"openSearch", "loadSearchData"} \subseteq calls

\* C9: a failed load (rejected fetch, response not ok, invalid JSON) shows the
\* error message, leaves searchData unset and clears isLoading; after it the
\* next open, and the next search of a query of at least minChars characters
\* (as handleSearch measures it, after trimming), issues a new fetch.
C9_LoadErrorRecovery ==
  /\ [][failures' = failures + 1 =>
          (results' = LoadError /\ searchData' = NULL /\ ~isLoading')]_vars
  /\ [][(/\ calls' # calls
           /\ searchData = NULL
           /\ ~isLoading
           /\ \/ "openSearch" \in calls'
              \/ "handleSearch" \in calls' /\ Len(query) >= minChars)
          => (isLoading' /\ fetchCount' = fetchCount + 1)]_vars

\* C9 witness: after a failed load a query has issued the second fetch.
C9_RetryAfterFailure ==
  /\ failures = 1 /\ fetchCount = 2 /\ isLoading /\ inFlight = 1
  /\ {"handleSearch", "loadSearchData"} \subseteq calls

\* C14: whenever handleSearch runs with a query shorter than minChars, it runs
\* no search and no rendering of results, and the results area is empty
\* afterwards whatever it showed before.
C14_ShortQueryClears ==
  [][("handleSearch" \in calls' /\ Len(query') < minChars) =>
       (/\ results' = Empty
        /\ "search" \notin calls'
        /\ "renderResults" \notin calls')]_vars

\* C14 witness: with the collection loaded, handleSearch has just run on a
\* query of one character and the results area is empty.
C14_OneCharacterCleared ==
  /\ calls = {"handleSearch"} /\ searchData # NULL /\ isOpen
  /\ Len(query) = 1 /\ results = Empty

\* C15: whenever handleSearch runs with a query shorter than minChars, it does
\* not call loadSearchData and no fetch is issued, whether or not a
\* collection is loaded.
C15_ShortQueryNeverFetches ==
  [][("handleSearch" \in calls' /\ Len(query') < minChars) =>
       (/\ "loadSearchData" \notin calls'
        /\ fetchCount' = fetchCount
        /\ fetching' = fetching)]_vars

\* C15 witness: a load has failed, so no collection is loaded and none is in
\* flight, and handleSearch has just run on a query of one character.
C15_ShortQueryAfterFailure ==
  /\ calls = {"handleSearch"} /\ searchData = NULL /\ ~isLoading
  /\ failures >= 1 /\ Len(query) = 1

\* C16: closeSearch leaves the widget Closed with an empty input box and an
\* empty results area, and changes neither the collection nor isLoading and
\* issues no fetch; openSearch with a collection loaded issues no fetch.
C16_CloseKeepsCollection ==
  [][/\ "closeSearch" \in calls' =>
          (/\ ~isOpen' /\ inputVal' = <<>> /\ results' = Empty
           /\ searchData' = searchData /\ isLoading' = isLoading
           /\ fetchCount' = fetchCount)
     /\ ("openSearch" \in calls' /\ searchData # NULL) =>
          (/\ isOpen' /\ searchData' = searchData
           /\ fetchCount' = fetchCount /\ "loadSearchData" \notin calls')]_vars

\* C16 witness: the widget has just been closed with the collection loaded and
\* a debounce timer of the cleared input still pending.
C16_ClosedWithCollection ==
  /\ "closeSearch" \in calls /\ searchData # NULL /\ timers # {}
  /\ ~isOpen /\ inputVal = <<>> /\ results = Empty

\* C17: the session starts Closed with no collection and not loading; in every
\* reachable state a click can open a closed widget and close an open one, a
\* pending query of at least minChars leads to a search or a load attempt
\* unless a load is in flight, and isLoading is clear whenever no fetch is in
\* flight.
C17_ReusableSession ==
  /\ (~isOpen /\ searchData = NULL /\ ~isLoading)
  /\ [](/\ ~isOpen => ENABLED (ToggleClick /\ isOpen')
        /\ isOpen => ENABLED (CloseClick /\ ~isOpen')
        /\ (timers # {} /\ Len(query) >= minChars /\ inFlight = 0) =>
             \E id \in timers :
               {"search", "loadSearchData"} \cap onTimeout(Event, id).calls # {}
        /\ inFlight = 0 => ~isLoading)

\* C17 witness: after a failed load and a second, successful one the widget
\* is open and a query has just been searched.
C17_SearchAfterFailedLoad ==
  /\ failures >= 1 /\ successCount = 1 /\ fetchCount >= 2
  /\ isOpen /\ "search" \in calls /\ results.kind = "items"

\* C18 (as claimed): no exception leaves a handler of the engine, and a load
\* that fails leaves the load error message in the results area.
C18_NoFatalErrors ==
  /\ [](~uncaught)
  /\ [][failures' > failures => results' = LoadError]_vars

\* C24: in every state after the load, the collection is the one that the
\* load has built from the parsed body, with the same Documents in the same
\* order whatever has been searched since, and what a search has just
\* rendered is determined by the query and that collection alone.
C24_SearchLeavesCollection ==
  successCount >= 1 =>
    /\ searchData = processSearchData(parsedBody)
    /\ "renderResults" \in calls =>
         results = renderResults(search(query, processSearchData(parsedBody)),
                                 query)

\* C24 witness: a query has just been searched in the collection of two
\* Documents and has ranked the second one first; the collection still
\* holds both in the order of the index.
C24_SearchedTwoDocuments ==
  /\ "search" \in calls /\ results.kind = "items" /\ timers = {}
  /\ Len(searchData.items) = 2 /\ Len(results.items) = 2
  /\ results.items[1].post = searchData.items[2]
  /\ searchData.items[1].title = <<"A", "b">>

\* the engine is quiescent: the collection is loaded, no fetch is in flight
\* and no debounce timer is pending
quiescent == searchData # NULL /\ inFlight = 0 /\ timers = {}

\* C25 (as claimed): in every quiescent state the results area shows the
\* rendering of search for the trimmed input value when that has at least
\* minChars characters, and is empty otherwise.
C25_QuiescentConsistency ==
  quiescent =>
    IF Len(query) >= minChars
      THEN results = renderResults(search(query, searchData), query)
      ELSE results = Empty

\* C26: between events isLoading is set exactly when one load has started
\* and not settled, never more than one load is unsettled, and isLoading is
\* never set while a collection is loaded.
C26_LoadingTracksFetch ==
  /\ isLoading <=> inFlight = 1
  /\ inFlight \in {0, 1}
  /\ isLoading => searchData = NULL

\* C26 witness: after a load that failed, a second load waits for the body
\* of its response with isLoading set.
C26_SecondLoadParsing ==
  /\ isLoading /\ parsing = 1 /\ fetching = 0
  /\ failures = 1 /\ fetchCount = 2 /\ searchData = NULL

PaddedValues ==
  Values \cup {<<" ", " ">>, <<"a", " ">>, <<" ", "a", "b">>,
               <<"a", "b", " ">>, <<" ", "B", "a", " ">>}

\* C28: in every state handleSearch does with a value what it does with the
\* trimmed value; and when the load completes with a value in the box whose
\* raw length reaches minChars and whose trimmed length does not, no search
\* runs and the results area is left empty.
C28_TrimmedQueryDecides ==
  /\ [](\A value \in PaddedValues :
          handleSearch(Event, value) = handleSearch(Event, trim(value)))
  /\ [][(/\ successCount' = successCount + 1
          /\ Len(inputVal) >= minChars
          /\ Len(query) < minChars) =>
           (/\ "handleSearch" \in calls'
            /\ "search" \notin calls'
            /\ results' = Empty)]_vars

\* C28 witness: the load has just completed with " a" in the box and its
\* timer still pending; the replay has called handleSearch, which has run no
\* search and left the results area empty.
C28_PaddedShortQueryReplayed ==
  /\ successCount = 1 /\ inputVal = <<" ", "a">> /\ timers # {}
  /\ calls = {"handleSearch"} /\ results = Empty

\* C29: when checkStoredPasswords has run, the password input is filled only
\* with the password of an item of the current page that was less than
\* sessionDuration old, and an item of the current page that was older is
\* gone and the input empty; an item appears or changes in sessionStorage
\* only when storePassword has run, under the id of the current page and with
\* the current time as its timestamp.
C29_StoredPasswordExpires ==
  [][/\ "checkStoredPasswords" \in calls' =>
          LET item == sessionStorage[getPageId(pathname')]
              age == now - item.timestamp
          IN  /\ passwordInput' # <<>> =>
                   (/\ item # NULL
                    /\ age < 24 * 60 * 60 * 1000
                    /\ passwordInput' = item.password
                    /\ sessionStorage' = sessionStorage)
              /\ (item # NULL /\ age >= 24 * 60 * 60 * 1000) =>
                   (/\ sessionStorage'[getPageId(pathname')] = NULL
                    /\ passwordInput' = <<>>)
     /\ \A id \in PageIds :
          (sessionStorage'[id] # sessionStorage[id]
             /\ sessionStorage'[id] # NULL) =>
            (/\ "storePassword" \in calls'
             /\ id = getPageId(pathname)
             /\ sessionStorage'[id].timestamp = now
             /\ sessionStorage'[id].password = passwordInput)]_vars

\* C29 witness: the page is loaded exactly sessionDuration after its password
\* was stored; the item has been removed and the input is left empty.
C29_RemovedAfterOneDay ==
  /\ {"checkStoredPasswords", "removeStoredPassword"} \subseteq calls
  /\ now = sessionDuration /\ hasInput /\ passwordInput = <<>>
  /\ sessionStorage[getPageId(pathname)] = NULL

\* the raw entries of the body that has been parsed
rawEntries ==
  IF parsedBody.type = "array" THEN parsedBody.items
  ELSE IF "posts" \in DOMAIN parsedBody THEN parsedBody.posts.items
  ELSE <<>>

\* the text form of the tags or categories that a raw entry gives
textForms(entry, name) ==
  IF name \notin DOMAIN entry THEN <<>>
  ELSE IF entry[name].type # "array" THEN <<>>
  ELSE [k \in 1..Len(entry[name].items) |->
          LET x == entry[name].items[k]
          IN  IF x.type = "string" THEN x.value
              ELSE IF "name" \in DOMAIN x THEN x.name
              ELSE <<>>]

\* the text of a field of a raw entry, empty when the entry lacks it
textOf(entry, name) ==
  IF name \in DOMAIN entry THEN entry[name] ELSE <<>>

\* C23: once a body has been processed, the collection holds one Document
\* per raw entry of the flat list or of the posts list, in the same order;
\* its title is the entry's, its url the entry's url, or else its path, its
\* tags and categories the text forms of the entry's, and whatever the entry
\* lacks is the empty text or the empty sequence.
C23_OneDocumentPerEntry ==
  successCount >= 1 =>
    /\ Len(searchData.items) = Len(rawEntries)
    /\ \A n \in 1..Len(rawEntries) :
         LET entry == rawEntries[n]
             doc == searchData.items[n]
         IN  /\ doc.title = textOf(entry, "title")
             /\ doc.url = IF textOf(entry, "url") # <<>>
                             THEN entry.url ELSE textOf(entry, "path")
             /\ "content" \notin DOMAIN entry => doc.content = <<>>
             /\ \A k \in 1..Len(doc.content) : doc.content[k] \notin {"<", ">"}
             /\ doc.tags = textForms(entry, "tags")
             /\ doc.categories = textForms(entry, "categories")

\* C23 witness: an object with a posts list of two entries has been
\* processed; the second Document has its url from the path and its tags
\* from an object with a name and from a text.
C23_PostsObjectNormalised ==
  /\ successCount = 1 /\ parsedBody.type = "object"
  /\ Len(searchData.items) = 2
  /\ searchData.items[2].url = <<"p">>
  /\ searchData.items[2].tags = <<<<"b">>, <<"a">>>>
  /\ searchData.items[2].title = <<>>

----------------------------------------------------------------------------
(* Properties of search *)

\* two characters that differ at most in case
sameLetter(c, d) == c = d \/ {c, d} = {"a", "A"} \/ {c, d} = {"b", "B"}

\* q is a substring of text when case is ignored
occursIn(q, text) ==
  \E k \in 0..(Len(text) - Len(q)) :
    \A i \in 1..Len(q) : sameLetter(text[k + i], q[i])

occursInSome(q, texts) == \E i \in 1..Len(texts) : occursIn(q, texts[i])

\* the four containment tests of a Document
containment(q, doc) ==
  [title      |-> occursIn(q, doc.title),
   content    |-> occursIn(q, doc.content),
   tags       |-> occursInSome(q, doc.tags),
   categories |-> occursInSome(q, doc.categories)]

contains(q, doc) ==
  LET c == containment(q, doc)
  IN  c.title \/ c.content \/ c.tags \/ c.categories

\* the results the last search has rendered
found == IF results.kind = "items" THEN results.items ELSE <<>>

placesOf(doc) ==
  {i \in 1..Len(searchData.items) : searchData.items[i] = doc}

\* doc stands before other in the collection
before(doc, other) ==
  \E i \in placesOf(doc) : \A k \in placesOf(other) : i < k

weight(flag, w) == IF flag THEN w ELSE 0

\* the fields of a Document that contain q
fieldsOf(q, doc) ==
  {f \in {"title", "content", "tags", "categories"} : containment(q, doc)[f]}

\* C11: the score of every result is 10, 5, 3 and 1 added up over the title,
\* tags, categories and content that contain the query; tags and categories
\* count once however many of them contain it; the score lies in 1..19.
C11_ScoreIsAdditive ==
  "search" \in calls =>
    \A j \in 1..Len(found) :
      LET c == containment(query, found[j].post)
      IN  /\ found[j].score = weight(c.title, 10) + weight(c.tags, 5)
                                + weight(c.categories, 3) + weight(c.content, 1)
          /\ found[j].score \in 1..19

\* C11 witness: a result whose two tags both contain the query, and nothing
\* else does, scores 5.
C11_TwoTagsScoreFive ==
  /\ "search" \in calls
  /\ \E j \in 1..Len(found) :
       /\ Len(found[j].post.tags) = 2
       /\ \A i \in 1..2 : occursIn(query, found[j].post.tags[i])
       /\ fieldsOf(query, found[j].post) = {"tags"}
       /\ found[j].score = 5

\* C12: the results are in descending order of score, and results of equal
\* score stand in the order their Documents have in the collection.
C12_SortedAndStable ==
  "search" \in calls =>
    \A i, j \in 1..Len(found) :
      i < j =>
        /\ found[i].score >= found[j].score
        /\ (found[i].score = found[j].score
              /\ found[i].post # found[j].post)
             => before(found[i].post, found[j].post)

\* C12 witness: of three results the last two have the same score and keep
\* the order of the collection, behind a Document that stood after them.
C12_TieKeepsCollectionOrder ==
  /\ "search" \in calls
  /\ Len(found) = 3
  /\ found[1].post = searchData.items[2]
  /\ found[2].post = searchData.items[1]
  /\ found[3].post = searchData.items[3]
  /\ found[1].score > found[2].score
  /\ found[2].score = found[3].score

\* C13: a result whose matched fields strictly contain those of another
\* result scores strictly higher and stands before it, wherever the two
\* Documents stand in the collection.
C13_MoreFieldsRankFirst ==
  "search" \in calls =>
    \A i, j \in 1..Len(found) :
      (fieldsOf(query, found[j].post) \subseteq fieldsOf(query, found[i].post)
         /\ fieldsOf(query, found[j].post) # fieldsOf(query, found[i].post))
        => (found[i].score > found[j].score /\ i < j)

\* C13 witness: a Document matched in title and content (11) stands after one
\* matched in content alone (1) in the collection and before it in the result.
C13_TitleAndContentFirst ==
  /\ "search" \in calls
  /\ Len(found) = 2
  /\ found[1].post = searchData.items[2]
  /\ fieldsOf(query, found[1].post) = {"title", "content"}
  /\ fieldsOf(query, found[2].post) = {"content"}
  /\ found[1].score = 11 /\ found[2].score = 1

----------------------------------------------------------------------------
(* Properties of getExcerpt *)

\* 0-based index of the first place where q, case ignored, stands in text,
\* or -1
firstOccurrence(text, q) ==
  LET hits == {i \in 0..(Len(text) - Len(q)) :
                 \A k \in 1..Len(q) : sameLetter(text[i + k], q[k])}
  IN  IF hits = {} THEN -1 ELSE CHOOSE i \in hits : \A j \in hits : i <= j

\* the characters of text from index from up to, not including, index to
slice(text, from, to) == [k \in 1..(to - from) |-> text[from + k]]

\* the excerpt of text for q as it is specified
window(text, q) ==
  LET i == firstOccurrence(text, q)
      from == IF i - charsBefore > 0 THEN i - charsBefore ELSE 0
      to == IF i + Len(q) + charsAfter < Len(text)
              THEN i + Len(q) + charsAfter ELSE Len(text)
      cut == IF Len(text) > maxLength THEN maxLength ELSE Len(text)
  IN  IF i = -1
        THEN slice(text, 0, cut)
               \o (IF Len(text) > maxLength THEN ellipsis ELSE <<>>)
        ELSE (IF from > 0 THEN ellipsis ELSE <<>>)
               \o slice(text, from, to)
               \o (IF to < Len(text) THEN ellipsis ELSE <<>>)

\* excerpt is a part of text between optional markers, and holds the first
\* occurrence of q when there is one
roundTrip(excerpt, text, q) ==
  LET i == firstOccurrence(text, q)
  IN  \E pre \in {<<>>, ellipsis}, post \in {<<>>, ellipsis} :
        LET n == Len(excerpt) - Len(pre) - Len(post)
        IN  /\ n >= 0
            /\ \E from \in 0..(Len(text) - n) :
                 /\ excerpt = pre \o slice(text, from, from + n) \o post
                 /\ i # -1 => (from <= i /\ i + Len(q) <= from + n)

\* C19 (as claimed): the excerpt rendered for a result is the first maxLength
\* characters of its content, marked when the content is longer, if the query
\* does not occur in the content, and otherwise the window from 50 characters
\* before the first occurrence to 100 characters after it, marked at each
\* end that is not an end of the content.
C19_ExcerptIsWindow ==
  \A n \in 1..Len(found) :
    found[n].excerpt = window(found[n].post.content, results.keyword)

\* C20 (as claimed): the excerpt rendered for a result, without its markers,
\* is a contiguous part of the content and holds the first occurrence of the
\* query in full when the query occurs in the content.
C20_ExcerptRoundTrip ==
  \A n \in 1..Len(found) :
    roundTrip(found[n].excerpt, found[n].post.content, results.keyword)

----------------------------------------------------------------------------
(* Properties of highlight and renderResults *)

Markers == {MarkOpen, MarkClose}

\* the output without its markers
unmarked(out) == SelectSeq(out, LAMBDA t : t \notin Markers)

\* the number of characters of text that stand before position j of out
charsUpTo(out, j) == Cardinality({k \in 1..(j - 1) : out[k] \notin Markers})

\* the parts of the text that out wraps, each as <<from, to>>, 0-based, to
\* not included
markedParts(out) ==
  {<<charsUpTo(out, j),
     charsUpTo(out, CHOOSE c \in (j + 1)..Len(out) :
                      /\ out[c] = MarkClose
                      /\ \A e \in (j + 1)..(c - 1) : out[e] # MarkClose)>> :
     j \in {o \in 1..Len(out) : out[o] = MarkOpen}}

\* the places where q, case ignored, stands in text, each as <<from, to>>
occurrences(text, q) ==
  {<<i, i + Len(q)>> : i \in {h \in 0..(Len(text) - Len(q)) :
     \A k \in 1..Len(q) : sameLetter(text[h + k], q[k])}}

\* every opening marker is closed before the next one opens
markersPaired(out) ==
  /\ \A j \in 1..Len(out) : out[j] = MarkOpen =>
       \E c \in (j + 1)..Len(out) :
         /\ out[c] = MarkClose
         /\ \A e \in (j + 1)..(c - 1) : out[e] \notin Markers
  /\ Cardinality({j \in 1..Len(out) : out[j] = MarkOpen})
       = Cardinality({j \in 1..Len(out) : out[j] = MarkClose})

\* out is text with every occurrence of q wrapped
everyOccurrenceMarked(out, text, q) ==
  /\ unmarked(out) = text
  /\ markersPaired(out)
  /\ markedParts(out) = occurrences(text, q)

\* out is text with the occurrences of q wrapped that a scan from the left
\* finds when it goes on behind each occurrence it has found
scannedOccurrencesMarked(out, text, q) ==
  LET parts == markedParts(out)
      all == occurrences(text, q)
  IN  /\ unmarked(out) = text
      /\ markersPaired(out)
      /\ parts \subseteq all
      /\ \A r \in parts, t \in parts : r # t => (r[2] <= t[1] \/ t[2] <= r[1])
      /\ \A o \in all \ parts :
           \E r \in parts : r[1] < o[1] /\ o[1] < r[2]

\* C21 (as claimed): in every rendered item the title, the excerpt and the
\* tags are the texts with every case-insensitive occurrence of the literal
\* query wrapped in a marker, and nothing else changed.
C21_EveryOccurrenceWrapped ==
  \A n \in 1..Len(found) :
    LET item == found[n]
        q == results.keyword
    IN  /\ everyOccurrenceMarked(item.highlightedTitle, item.post.title, q)
        /\ everyOccurrenceMarked(item.highlightedExcerpt, item.excerpt, q)
        /\ \A k \in 1..Len(item.tags) :
             everyOccurrenceMarked(item.tags[k], item.post.tags[k], q)

\* C21 (amended): in every rendered item the title, the excerpt and the tags
\* are the texts with those case-insensitive occurrences of the literal
\* query wrapped that a scan from the left finds without overlap; text that
\* matches the query only when it is read as a pattern is not wrapped, and
\* the output without its markers is the text.
C21_ScannedOccurrencesWrapped ==
  \A n \in 1..Len(found) :
    LET item == found[n]
        q == results.keyword
    IN  /\ scannedOccurrencesMarked(item.highlightedTitle, item.post.title, q)
        /\ scannedOccurrencesMarked(item.highlightedExcerpt, item.excerpt, q)
        /\ \A k \in 1..Len(item.tags) :
             scannedOccurrencesMarked(item.tags[k], item.post.tags[k], q)

\* C21 witness: for the query "a." the title "a.b" is rendered with its
\* first two characters wrapped and the tag "ab" without a marker.
C21_DotMatchedLiterally ==
  /\ results.kind = "items" /\ results.keyword = <<"a", ".">>
  /\ found[1].highlightedTitle = <<MarkOpen, "a", ".", MarkClose, "b">>
  /\ Len(found[1].tags) >= 1 /\ found[1].tags[1] = <<"a", "b">>

====
